---------------------------- MODULE Spec2Model ----------------------------
(***************************************************************************)
(* A model of the Doc-Weather-Assistant serving path: the LangGraph        *)
(* workflow of agent.py (router -> rag_tool | weather_tool -> responder    *)
(* -> END), the fetch_weather tool, and the Streamlit shell of main.py     *)
(* that keeps the conversation log and invokes the graph once per prompt.  *)
(*                                                                         *)
(* The language model, the vector store and the weather service are        *)
(* external: every call to one of them is a choice over the outcomes the   *)
(* call can have (a value or a raised exception).                          *)
(*                                                                         *)
(* Representation.                                                         *)
(*  - The router's raw reply is a sequence of one-character strings, so    *)
(*    that strip(), lower() and the substring test are computed.           *)
(*  - An f-string is the sequence of its literal pieces and interpolated   *)
(*    values: f"City '{city}' not found." is <<"City '", city,             *)
(*    "' not found.">>.                                                    *)
(*  - A Python dict is the set of its <<key, value>> pairs; {} is the      *)
(*    empty dict.  The graph state is a dict whose key set is state.keys;  *)
(*    a field whose key is absent holds the falsy default of its type,     *)
(*    which is what state.get(key) yields to a truthiness test.            *)
(***************************************************************************)
EXTENDS Naturals, Sequences, FiniteSets, TLC

VARIABLES
    log,            \* st.session_state.messages              (main.py:15-16)
    pc,             \* where the current turn stands
    turn,           \* prompts submitted so far
    completed,      \* turns whose app.invoke returned
    state,          \* the AgentState of the current turn     (agent.py:20-27)
    visited,        \* nodes run in the current turn, in order
    decision,       \* router_node's raw response.content     (agent.py:107)
    extracted,      \* weather_node's structured_llm result   (agent.py:139)
    svc,            \* the weather service's answer to requests.get
    llmCalls,       \* nodes that called the language model this turn
    weatherReqs,    \* params of the requests.get calls of this turn
    branch,         \* branch response_generator_node took this turn
    responseWrites, \* times "response" was written this turn
    raised          \* exception that ended the turn, "" when none

vars == <<log, pc, turn, completed, state, visited, decision, extracted, svc,
          llmCalls, weatherReqs, branch, responseWrites, raised>>

-----------------------------------------------------------------------------
(* Bounds of the model. *)

MaxTurns == 2

MaxChunks == 2

BoundedSeq(S, n) == UNION {[1..k -> S] : k \in 0..n}

-----------------------------------------------------------------------------
(* Inputs and outcomes of the external collaborators. *)

Queries == {"what is the weather like in Bengaluru?",
            "what is Diagnostic Trouble Code?"}

Cities == {"Bengaluru", "Atlantis"}

Whitespace == {" ", "\n", "\t"}

Weather == <<"w", "e", "a", "t", "h", "e", "r">>

DecisionPrefixes == {<< >>, <<" ">>, <<"\n", "'">>}

DecisionCores ==
    { << >>,
      <<"r", "a", "g">>,
      <<"R", "A", "G">>,
      Weather,
      <<"W", "e", "a", "t", "h", "e", "r">>,
      <<"W", "E", "A", "T", "H", "E", "R">>,
      <<"w", "e", "a", "t", "h", "e">>,
      <<"w", "e", "a", "t", "h", " ", "e", "r">>,
      <<"e", "a", "t", "h", "e", "r">> }

DecisionSuffixes == {<< >>, <<"\n">>, <<"_", "t", "o", "o", "l", "'", " ">>}

\* What llm.invoke(prompt).content can be in router_node.
Decisions == {p \o c \o s : p \in DecisionPrefixes, c \in DecisionCores,
                            s \in DecisionSuffixes}

\* What llm.invoke(prompt).content can be in response_generator_node.
Contents == {"", "Here is what I found."}

Chunks == {"0x19 ReadDTCInformation", "0x14 ClearDiagnosticInformation"}

\* A Document of the vector store: text plus metadata.
Documents == [page_content : Chunks, page : {"p"}]

\* What retriever.invoke(query) can return.
Retrievals == BoundedSeq(Documents, MaxChunks)

EmptyPayload == {}

HazePayload == {<<"main.temp", <<"25">>>>, <<"weather.description", <<"haze">>>>}

\* JSON objects a 2xx response of the weather service can carry.
Payloads == {EmptyPayload, HazePayload, {<<"cod", <<"200">>>>}}

Statuses == {200, 401, 404, 500}

NoAnswer == [kind |-> "unset", status |-> 0, json_ok |-> FALSE, json |-> {}]

\* What requests.get can do: raise a RequestException before any response
\* ("network"), or return a response with a status and a body that parses as
\* JSON (json_ok) or does not.
ServiceOutcomes ==
    {[kind |-> "network", status |-> 0, json_ok |-> FALSE, json |-> {}]}
    \cup {[kind |-> "response", status |-> s, json_ok |-> FALSE, json |-> {}] :
            s \in Statuses}
    \cup {[kind |-> "response", status |-> 200, json_ok |-> TRUE, json |-> p] :
            p \in Payloads}

NoExtraction == [kind |-> "unset", city |-> ""]

\* What structured_llm.invoke(query) can do: raise, return None, or return a
\* WeatherInput whose city is a string, possibly empty.
Extractions ==
    {[kind |-> "raise", city |-> ""], [kind |-> "None", city |-> ""]}
    \cup {[kind |-> "WeatherInput", city |-> c] : c \in Cities \cup {""}}

-----------------------------------------------------------------------------
(* The graph state. *)

EmptyState ==
    [keys |-> {}, query |-> "", route |-> "", documents |-> << >>,
     weather_data |-> {}, response |-> "", sender |-> ""]

\* inputs = {"messages": [...], "query": prompt}                (main.py:33-36)
InitialState(prompt) ==
    [EmptyState EXCEPT !.keys = {"messages", "query"}, !.query = prompt]

Greeting == [type |-> "ai", content |-> "Hello! How can I assist you today?"]

HumanMessage(text) == [type |-> "human", content |-> text]

AIMessage(text) == [type |-> "ai", content |-> text]

-----------------------------------------------------------------------------
(* Pure functions of agent.py. *)

LowerChar(c) ==
    CASE c = "W" -> "w" [] c = "E" -> "e" [] c = "A" -> "a" [] c = "T" -> "t"
      [] c = "H" -> "h" [] c = "R" -> "r" [] c = "G" -> "g" [] OTHER -> c

Lower(s) == [i \in 1..Len(s) |-> LowerChar(s[i])]

RECURSIVE LStrip(_)
LStrip(s) ==
    IF s # << >> /\ Head(s) \in Whitespace THEN LStrip(Tail(s)) ELSE s

RECURSIVE RStrip(_)
RStrip(s) ==
    IF s # << >> /\ s[Len(s)] \in Whitespace
    THEN RStrip(SubSeq(s, 1, Len(s) - 1))
    ELSE s

Strip(s) == RStrip(LStrip(s))

\* Python's `sub in s` on strings.
Contains(sub, s) ==
    \E i \in 1..(Len(s) + 1) :
        /\ i + Len(sub) - 1 <= Len(s)
        /\ SubSeq(s, i, i + Len(sub) - 1) = sub

\* RouteOf without lower(): a case-sensitive test.
RouteOf_CaseSensitive(content) ==
    IF Contains(Weather, Strip(content)) THEN "weather" ELSE "rag"

\* decision = response.content.strip().lower(); "weather" in decision
RouteOf(content) ==
    IF Contains(Weather, Lower(Strip(content))) THEN "weather" ELSE "rag"

\* The conditional edge out of the router and its mapping.
ConditionalEdge(route) ==
    CASE route = "rag" -> "rag_tool"
      [] route = "weather" -> "weather_tool"

\* str(http_err) of the HTTPError raise_for_status() raises.
HttpErrText(status) ==
    IF status < 500 THEN "Client Error" ELSE "Server Error"

RaisesForStatus(status) == status >= 400 /\ status < 600

\* The params of the request fetch_weather issues.
WeatherParams(city) == [q |-> city, units |-> "metric"]

\* fetch_weather without the 404 case.
fetch_weather_No404(city, answer) ==
    IF answer.kind = "network"
    THEN {<<"error", <<"An error occurred: ", "ConnectionError">>>>}
    ELSE IF RaisesForStatus(answer.status)
    THEN {<<"error", <<"HTTP error occurred: ", HttpErrText(answer.status)>>>>}
    ELSE IF answer.json_ok
    THEN answer.json
    ELSE {<<"error", <<"An error occurred: ", "JSONDecodeError">>>>}

\* answer is what requests.get did.  A body that does not parse makes
\* response.json() raise requests' JSONDecodeError, a RequestException, which
\* the second except clause catches.
fetch_weather(city, answer) ==
    IF answer.kind = "network"
    THEN {<<"error", <<"An error occurred: ", "ConnectionError">>>>}
    ELSE IF RaisesForStatus(answer.status)
    THEN IF answer.status = 404
         THEN {<<"error", <<"City '", city, "' not found.">>>>}
         ELSE {<<"error", <<"HTTP error occurred: ",
                             HttpErrText(answer.status)>>>>}
    ELSE IF answer.json_ok
    THEN answer.json
    ELSE {<<"error", <<"An error occurred: ", "JSONDecodeError">>>>}

\* `if result.city is None:` instead of `if not result.city:`.
CityMissing_IsNone(result) == FALSE

\* `not result.city`
CityMissing(result) == result.city = ""

NoCityError == {<<"error", <<"Could not identify a city in the query.">>>>}

Fallback == "I'm sorry, I couldn't process that request."

ShellDefault == "I'm sorry, I encountered an error."

\* Which branch response_generator_node takes: `if documents:`,
\* `elif weather_data:`, `else`.
ResponderBranch(st) ==
    IF st.documents # << >> THEN "documents"
    ELSE IF st.weather_data # {} THEN "weather"
    ELSE "fallback"

\* result.get("response", "I'm sorry, I encountered an error.")
FinalResponse(st) ==
    IF "response" \in st.keys THEN st.response ELSE ShellDefault

-----------------------------------------------------------------------------
(* The state machine. *)

Init ==
    /\ log = <<Greeting>>
    /\ pc = "idle"
    /\ turn = 0
    /\ completed = 0
    /\ state = EmptyState
    /\ visited = << >>
    /\ decision = << >>
    /\ extracted = NoExtraction
    /\ svc = NoAnswer
    /\ llmCalls = << >>
    /\ weatherReqs = << >>
    /\ branch = "none"
    /\ responseWrites = 0
    /\ raised = ""

\* A node raised: the exception leaves app.invoke and ends the script run.
Abort(node, exc) ==
    /\ pc' = "aborted"
    /\ raised' = exc
    /\ visited' = Append(visited, node)

\* The user submits a prompt: the script appends it to the log and invokes
\* the graph on a fresh state.
SubmitPrompt ==
    /\ pc \in {"idle", "aborted"}
    /\ turn < MaxTurns
    /\ \E prompt \in Queries :
        /\ log' = Append(log, HumanMessage(prompt))
        /\ state' = InitialState(prompt)
    /\ pc' = "router"
    /\ turn' = turn + 1
    /\ visited' = << >>
    /\ decision' = << >>
    /\ extracted' = NoExtraction
    /\ svc' = NoAnswer
    /\ llmCalls' = << >>
    /\ weatherReqs' = << >>
    /\ branch' = "none"
    /\ responseWrites' = 0
    /\ raised' = ""
    /\ UNCHANGED completed

\* A router that calls the model a second time when the first call fails.
router_node_Retry ==
    /\ pc = "router"
    /\ \/ /\ Abort("router", "LLMError")
          /\ llmCalls' = Append(Append(llmCalls, "router"), "router")
          /\ UNCHANGED <<state, decision>>
       \/ \E content \in Decisions :
            /\ llmCalls' = Append(llmCalls, "router")
            /\ decision' = content
            /\ state' = [state EXCEPT !.keys = @ \cup {"route"},
                                      !.route = RouteOf(content)]
            /\ pc' = ConditionalEdge(RouteOf(content))
            /\ visited' = Append(visited, "router")
            /\ UNCHANGED raised
    /\ UNCHANGED <<log, turn, completed, extracted, svc, weatherReqs, branch,
                   responseWrites>>

router_node ==
    /\ pc = "router"
    /\ llmCalls' = Append(llmCalls, "router")
    /\ \/ /\ Abort("router", "LLMError")
          /\ UNCHANGED <<state, decision>>
       \/ \E content \in Decisions :
            /\ decision' = content
            /\ state' = [state EXCEPT !.keys = @ \cup {"route"},
                                      !.route = RouteOf(content)]
            /\ pc' = ConditionalEdge(RouteOf(content))
            /\ visited' = Append(visited, "router")
            /\ UNCHANGED raised
    /\ UNCHANGED <<log, turn, completed, extracted, svc, weatherReqs, branch,
                   responseWrites>>

rag_node ==
    /\ pc = "rag_tool"
    /\ \/ /\ Abort("rag_tool", "RetrieverError")
          /\ UNCHANGED state
       \/ \E docs \in Retrievals :
            /\ state' = [state EXCEPT
                           !.keys = @ \cup {"documents", "sender"},
                           !.documents =
                               [i \in 1..Len(docs) |-> docs[i].page_content],
                           !.sender = "RAG Tool"]
            /\ pc' = "responder"
            /\ visited' = Append(visited, "rag_tool")
            /\ UNCHANGED raised
    /\ UNCHANGED <<log, turn, completed, decision, extracted, svc, llmCalls,
                   weatherReqs, branch, responseWrites>>

\* A weather update that also resets "documents".
WeatherUpdate_ResetsDocuments(st, info) ==
    [st EXCEPT !.keys = @ \cup {"weather_data", "sender", "documents"},
               !.weather_data = info,
               !.sender = "Weather Tool"]

WeatherUpdate(st, info) ==
    [st EXCEPT !.keys = @ \cup {"weather_data", "sender"},
               !.weather_data = info,
               !.sender = "Weather Tool"]

weather_node ==
    /\ pc = "weather_tool"
    /\ llmCalls' = Append(llmCalls, "weather_tool")
    /\ \E result \in Extractions :
        /\ extracted' = result
        /\ \/ /\ result.kind = "raise"
              /\ Abort("weather_tool", "LLMError")
              /\ UNCHANGED <<state, svc, weatherReqs>>
           \/ /\ result.kind = "None"
              /\ Abort("weather_tool", "AttributeError")
              /\ UNCHANGED <<state, svc, weatherReqs>>
           \/ /\ result.kind = "WeatherInput"
              /\ CityMissing(result)
              /\ state' = WeatherUpdate(state, NoCityError)
              /\ pc' = "responder"
              /\ visited' = Append(visited, "weather_tool")
              /\ UNCHANGED <<raised, svc, weatherReqs>>
           \/ /\ result.kind = "WeatherInput"
              /\ ~CityMissing(result)
              /\ \E answer \in ServiceOutcomes :
                    /\ svc' = answer
                    /\ state' = WeatherUpdate(state,
                                    fetch_weather(result.city, answer))
              /\ weatherReqs' = Append(weatherReqs, WeatherParams(result.city))
              /\ pc' = "responder"
              /\ visited' = Append(visited, "weather_tool")
              /\ UNCHANGED raised
    /\ UNCHANGED <<log, turn, completed, decision, branch, responseWrites>>

Respond(text) ==
    /\ state' = [state EXCEPT !.keys = @ \cup {"response", "sender"},
                              !.response = text,
                              !.sender = "Agent"]
    /\ responseWrites' = responseWrites + 1
    /\ pc' = "END"
    /\ visited' = Append(visited, "responder")
    /\ UNCHANGED raised

response_generator_node ==
    /\ pc = "responder"
    /\ branch' = ResponderBranch(state)
    /\ \/ /\ ResponderBranch(state) \in {"documents", "weather"}
          /\ llmCalls' = Append(llmCalls, "responder")
          /\ \/ /\ Abort("responder", "LLMError")
                /\ UNCHANGED <<state, responseWrites>>
             \/ \E content \in Contents : Respond(content)
       \/ /\ ResponderBranch(state) = "fallback"
          /\ Respond(Fallback)
          /\ UNCHANGED llmCalls
    /\ UNCHANGED <<log, turn, completed, decision, extracted, svc, weatherReqs>>

\* A shell that overwrites the last log entry with the response.
ShellFinish_Overwrite ==
    /\ pc = "END"
    /\ log' = [log EXCEPT ![Len(log)] = AIMessage(FinalResponse(state))]
    /\ completed' = completed + 1
    /\ pc' = "idle"
    /\ UNCHANGED <<turn, state, visited, decision, extracted, svc, llmCalls,
                   weatherReqs, branch, responseWrites, raised>>

\* app.invoke returned: the script appends the response to the log.
ShellFinish ==
    /\ pc = "END"
    /\ log' = Append(log, AIMessage(FinalResponse(state)))
    /\ completed' = completed + 1
    /\ pc' = "idle"
    /\ UNCHANGED <<turn, state, visited, decision, extracted, svc, llmCalls,
                   weatherReqs, branch, responseWrites, raised>>

Next ==
    \/ SubmitPrompt
    \/ router_node
    \/ rag_node
    \/ weather_node
    \/ response_generator_node
    \/ ShellFinish

Spec == Init /\ [][Next]_vars

-----------------------------------------------------------------------------
(* Properties. *)

Last(s) == s[Len(s)]

Count(s, x) == Cardinality({i \in 1..Len(s) : s[i] = x})

IsPrefix(s, t) == Len(s) <= Len(t) /\ SubSeq(t, 1, Len(s)) = s

RagPath == <<"router", "rag_tool", "responder">>

WeatherPath == <<"router", "weather_tool", "responder">>

\* The letters of "weather" in either case, position by position.
WeatherLetters ==
    << {"w", "W"}, {"e", "E"}, {"a", "A"}, {"t", "T"}, {"h", "H"},
       {"e", "E"}, {"r", "R"} >>

\* The raw reply holds "weather" somewhere, in any mix of cases.
SaysWeather(d) ==
    \E i \in 1..Len(d) :
        /\ i + 6 <= Len(d)
        /\ \A k \in 1..7 : d[i + k - 1] \in WeatherLetters[k]

\* The node that runs right after the router in this turn.
NodeAfterRouter == IF Len(visited) >= 2 THEN visited[2] ELSE pc

\* An error payload whose message starts with `prefix`.
IsErrorWithPrefix(payload, prefix) ==
    /\ Cardinality(payload) = 1
    /\ \A p \in payload : p[1] = "error" /\ Len(p[2]) = 2 /\ p[2][1] = prefix

\* C1: once the router has replied, route is "weather" and the next node is
\* weather_tool exactly when the reply, stripped and lower-cased, contains
\* "weather"; otherwise route is "rag" and the next node is rag_tool.  The
\* route is always one of the two values the conditional edge maps.
C1_RouterDecision ==
    "route" \in state.keys =>
        /\ state.route \in {"rag", "weather"}
        /\ visited # << >> /\ visited[1] = "router"
        /\ IF SaysWeather(decision)
           THEN /\ Contains(Weather, Lower(Strip(decision)))
                /\ state.route = "weather"
                /\ NodeAfterRouter = "weather_tool"
           ELSE /\ ~Contains(Weather, Lower(Strip(decision)))
                /\ state.route = "rag"
                /\ NodeAfterRouter = "rag_tool"

\* C1 witness: a reply that needs both strip() and lower() routed to weather.
C1_Witness ==
    /\ pc = "weather_tool"
    /\ state.route = "weather"
    /\ decision # Strip(decision)
    /\ ~Contains(Weather, Strip(decision))

\* C2 as stated: at the terminal step documents is non-empty and
\* weather_data absent on the retrieval route, weather_data present and
\* documents absent on the weather route.
C2_ExactlyOnePopulated ==
    pc = "END" =>
        IF state.route = "rag"
        THEN state.documents # << >> /\ "weather_data" \notin state.keys
        ELSE "weather_data" \in state.keys /\ "documents" \notin state.keys

\* C2 amended: at the terminal step exactly one of the two keys has been
\* written: documents (possibly the empty list) on the retrieval route,
\* weather_data on the weather route; the other one is absent.
C2_ExactlyOneSet ==
    pc = "END" =>
        IF state.route = "rag"
        THEN /\ "documents" \in state.keys
             /\ "weather_data" \notin state.keys
             /\ state.weather_data = {}
             /\ visited = RagPath
        ELSE /\ state.route = "weather"
             /\ "weather_data" \in state.keys
             /\ "documents" \notin state.keys
             /\ state.documents = << >>
             /\ visited = WeatherPath

\* C2 witness: a retrieval turn completes with zero chunks.
C2_Witness ==
    /\ pc = "END"
    /\ state.route = "rag"
    /\ "documents" \in state.keys
    /\ state.documents = << >>

\* C3: the weather node never raises: whatever the city extraction and the
\* weather service do, it returns with weather_data set and the turn goes on
\* to the responder.
C3_WeatherNodeNeverRaises ==
    extracted.kind # "unset" =>
        /\ raised = ""
        /\ pc \in {"responder", "END", "idle"}
        /\ "weather_data" \in state.keys

\* C4: fetch_weather classifies each answer of the weather service: a
\* successful response gives the raw payload unchanged; a 404 gives exactly
\* City '<city>' not found.; another 4xx/5xx gives an error starting with
\* "HTTP error occurred: "; a network failure gives an error starting with
\* "An error occurred: ".  Every request is sent with units=metric.
C4_FetchWeatherClassifies ==
    /\ \A i \in 1..Len(weatherReqs) : weatherReqs[i].units = "metric"
    /\ svc.kind # "unset" =>
        /\ weatherReqs # << >>
        /\ "weather_data" \in state.keys
        /\ svc.kind = "network" =>
              IsErrorWithPrefix(state.weather_data, "An error occurred: ")
        /\ (svc.kind = "response" /\ svc.status = 404) =>
              state.weather_data =
                  {<<"error", <<"City '", extracted.city, "' not found.">>>>}
        /\ (svc.kind = "response" /\ svc.status \in {401, 500}) =>
              IsErrorWithPrefix(state.weather_data, "HTTP error occurred: ")
        /\ (svc.kind = "response" /\ svc.status = 200 /\ svc.json_ok) =>
              state.weather_data = svc.json
        /\ (svc.kind = "response" /\ svc.status = 200 /\ ~svc.json_ok) =>
              IsErrorWithPrefix(state.weather_data, "An error occurred: ")

\* C4 witness: the service answered 404 for Atlantis.
C4_Witness ==
    /\ pc = "responder"
    /\ svc.kind = "response"
    /\ svc.status = 404
    /\ extracted.city = "Atlantis"

\* C5: the responder takes exactly one branch by priority: documents
\* non-empty: answer from the documents with one model call; else
\* weather_data present (any success or error payload): weather summary with
\* one model call; else the fixed fallback string with no model call.
C5_ResponderPriority ==
    pc = "END" =>
        IF state.documents # << >>
        THEN branch = "documents" /\ Count(llmCalls, "responder") = 1
        ELSE IF "weather_data" \in state.keys
        THEN branch = "weather" /\ Count(llmCalls, "responder") = 1
        ELSE /\ branch = "fallback"
             /\ state.response = "I'm sorry, I couldn't process that request."
             /\ Count(llmCalls, "responder") = 0

\* C6: at the terminal step the response has been written exactly once and
\* is a non-empty string.
C6_ResponseOnceNonEmpty ==
    pc = "END" =>
        /\ responseWrites = 1
        /\ "response" \in state.keys
        /\ state.response # ""

\* The nodes run so far are an initial part of one of the two paths, and a
\* turn at the terminal step has run one of them whole.
C7_Structure ==
    /\ IsPrefix(visited, RagPath) \/ IsPrefix(visited, WeatherPath)
    /\ pc = "END" => visited \in {RagPath, WeatherPath}

\* C7: a turn is a single pass along router, one tool node, responder; and
\* it stops short of the terminal step only when an external call failed.
C7_SinglePass ==
    /\ C7_Structure
    /\ pc = "aborted" => raised \in {"LLMError", "RetrieverError"}

\* A turn ended by a failing vector-store call in rag_tool or a failing
\* model call in router or responder.
HardFailure ==
    /\ pc = "aborted"
    /\ \/ Last(visited) = "router" /\ raised = "LLMError"
       \/ Last(visited) = "rag_tool" /\ raised = "RetrieverError"
       \/ Last(visited) = "responder" /\ raised = "LLMError"

C8_NoResponse ==
    HardFailure =>
        /\ "response" \notin state.keys
        /\ responseWrites = 0
        /\ branch \in {"none", "documents", "weather"}
        /\ Last(log).type = "human"
        /\ Len(log) = turn + completed + 1
        /\ Count(visited, Last(visited)) = 1
        /\ Count(llmCalls, Last(visited)) <= 1

C8_NoLaterNode ==
    HardFailure => /\ visited' = << >>
                   /\ pc' = "router"
                   /\ turn' = turn + 1
                   /\ Len(log') = Len(log) + 1
                   /\ Last(log').type = "human"

\* C8: a failing vector-store call in the retrieval node, or a failing model
\* call in the router or the responder, aborts the turn: no later node runs,
\* the call is not retried, and no response is produced or logged; the only
\* step that follows is the next prompt.
C8_HardFailureAborts == []C8_NoResponse /\ [][C8_NoLaterNode]_vars

\* C8 witness: the responder's model call failed.
C8_Witness ==
    /\ pc = "aborted"
    /\ raised = "LLMError"
    /\ visited = RagPath
    /\ state.documents # << >>

\* C9 as stated: the log holds nothing of a turn that is running or failed:
\* it is the greeting followed by one pair per completed turn.
C9_LogOnlyCompletedTurns == Len(log) = 1 + 2 * completed

C9_LogShape ==
    /\ log[1] = Greeting
    /\ Count([i \in 1..Len(log) |-> log[i].type], "human") = turn
    /\ Count([i \in 1..Len(log) |-> log[i].type], "ai") = completed + 1
    /\ \A i \in 2..Len(log) : log[i].type = "ai" => log[i - 1].type = "human"
    /\ pc \in {"router", "rag_tool", "weather_tool", "responder", "END",
               "aborted"} => Last(log) = HumanMessage(state.query)

C9_LogStep ==
    log' # log =>
        /\ Len(log') = Len(log) + 1
        /\ SubSeq(log', 1, Len(log)) = log
        /\ Last(log').type = "human" => pc \in {"idle", "aborted"}
        /\ Last(log').type = "ai" =>
              /\ pc = "END"
              /\ "response" \in state.keys
              /\ Last(log').content = state.response

\* C9 amended: the log is append-only; the user's message is appended when
\* its turn starts, before the graph runs, and a response is appended only
\* after the turn has completed.  So the log is the greeting followed, per
\* turn in order, by the user message and, for completed turns only, the
\* response; a failed turn leaves its user message without a response.
C9_LogAppendOnly == []C9_LogShape /\ [][C9_LogStep]_vars

\* C9 witness: a completed turn followed by a failed one.
C9_Witness ==
    /\ pc = "aborted"
    /\ completed = 1
    /\ turn = 2
    /\ Len(log) = 4
    /\ log[3].type = "ai"
    /\ log[4].type = "human"

\* C10: when the extraction yields an empty city, weather_data is exactly
\* {"error": "Could not identify a city in the query."} and the weather
\* service is not called; when it yields a city, the service is called
\* exactly once, with that city.
C10_CityShortCircuit ==
    /\ extracted.kind \in {"unset", "raise", "None"} => weatherReqs = << >>
    /\ extracted.kind = "WeatherInput" =>
        IF extracted.city = ""
        THEN /\ state.weather_data =
                  {<<"error", <<"Could not identify a city in the query.">>>>}
             /\ weatherReqs = << >>
             /\ svc = NoAnswer
        ELSE /\ Len(weatherReqs) = 1
             /\ weatherReqs[1].q = extracted.city
             /\ svc # NoAnswer

\* C10 witness: the extraction returned an empty city.
C10_Witness ==
    /\ pc = "responder"
    /\ extracted.kind = "WeatherInput"
    /\ extracted.city = ""

=============================================================================
